---- MODULE Spec2Model ----
(***************************************************************************)
(* Index lifecycle management of APFA: the FAISS admin API                 *)
(* (src/app/api/admin_faiss.py), the Celery queues it feeds, and the       *)
(* SwapController / VersionRegistry / TrafficRouter that consume them.     *)
(*                                                                         *)
(* The HTTP handlers are `async def` bodies without an await: each runs    *)
(* to completion on the event loop, so each is one atomic action.          *)
(*                                                                         *)
(* The Celery tasks 'hot_swap_index' and 'build_faiss_index' are sent by   *)
(* name from the handlers but are not defined in src/app/tasks.py; their   *)
(* consumers (the swap controller's tick loop, the build callback, the     *)
(* registry, the router and the metrics window) follow spec.md 4.1-4.5.    *)
(*                                                                         *)
(* The specifications share the variables: Spec (the admin API and the     *)
(* swap controller; SpecFair adds fair scheduling of the controller),      *)
(* SpecTrigger (the migration triggers evaluated when a FAISSIndex is      *)
(* constructed, src/app/models/faiss_models.py), SpecRegistry (direct      *)
(* VersionRegistry requests, spec.md 4.1), SpecAtomic (a status read       *)
(* overlapping a hot-swap), SpecReindex and SpecReindexFair (knowledge-    *)
(* base reindexing, src/app/main.py), SpecRate (the rate limiting          *)
(* middleware) and SpecAgent (agent configuration and rollback). Each      *)
(* leaves the variables of the others at their initial values.             *)
(*                                                                         *)
(* Representation: the version id "vN" is the integer N (build_index       *)
(* computes int(version[1:]) + 1); percentages and latencies are integers  *)
(* (the code's floats 0.0, 100.0, 25.0, 10.0 are integral).                *)
(***************************************************************************)
EXTENDS Integers, Sequences, FiniteSets, TLC

\* ------------------------------------------------------------------ bounds
MaxVersion == 2        \* version ids a hot-swap request may name: v1..vMaxVersion
MaxSwaps == 2          \* hot-swap requests over a run (swap ids swap_1..)
MaxBuilds == 2         \* build requests over a run
TrafficStep == 40      \* percent moved per migration tick (configurable)
MaxTime == 3           \* the clock runs 0..MaxTime
MaxReindex == 4        \* reindex operations created over a run (ids reindex_1..)
TimeStep == 30         \* seconds between two readings of time.time()
MaxClock == 60         \* time.time() runs 0..MaxClock
MaxAdmitted == 12      \* requests passed to the handlers over a run
MaxUpdates == 2        \* configure_agent calls over a run (rollback ids 1..)

\* ------------------------------------------------------- program constants
InitialVersion == 1            \* "version": "v1"
InitialDimensions == 384       \* "dimensions": 384
InitialVectorCount == 100000   \* "vector_count": 100000
BaselineP95 == 25              \* "p95_search_latency_ms": 25.0
InitialTraffic == 100          \* "traffic_percentage": 100.0
DefaultRegressionThreshold == 10   \* latency_regression_threshold default 10.0

Versions == 1..MaxVersion
Dimensions == {384, 768}
IndexTypes == {"IndexIVFFlat"}  \* the index type a build request asks for
Latencies == {27, 28, 40}      \* p95 (ms) a closed window with samples may report
NoVersion == 0                 \* None
ZeroSample == 0                \* p95 of a zero-sample snapshot

\* IndexHotSwapRequest bodies: the defaults, and an immediate swap with a laxer threshold
HotSwapOptions ==
    {[gradual_migration |-> TRUE, rollback_on_regression |-> TRUE,
      latency_regression_threshold |-> DefaultRegressionThreshold],
     [gradual_migration |-> FALSE, rollback_on_regression |-> TRUE,
      latency_regression_threshold |-> 50]}

VARIABLES
    current_index_metadata,  \* admin_faiss.current_index_metadata
    index_swap_queue,        \* Celery queue 'index_swap': messages sent, not yet received
    index_build_queue,       \* Celery queue 'index_build'
    response,                \* the last HTTP response
    swap_count,              \* hot-swap requests handled (names the uuid4 swap ids)
    build_count,             \* build requests handled
    swap_operation,          \* SwapController: the operation it drives (or drove last)
    registry,                \* VersionRegistry: version -> [status, dimensions]
    split,                   \* TrafficRouter: the routing table
    snapshot,                \* MetricsAggregator: p95 of the target's last closed window
    window_closed,           \* a window has closed since the controller's last tick
    cancel_log,              \* history: the Migrating operation a cancel request named
                             \* since the controller's last step, 0 if none
    index,                   \* the FAISSIndex object constructed last (faiss_models.py)
    now,                     \* the clock, in cooldown units
    last_recommended_at,     \* history: when an evaluation last required migration, -1 if never
    registry_error,          \* VersionRegistry: the error of the last direct request, "" if none
    status_loaded,           \* get_index_status: the migration_status dict it has loaded
    reindex_operations,      \* main.reindex_operations, in insertion order
    reindex_lock,            \* main.reindex_lock
    reindex_tasks,           \* the background tasks created and not finished, with their position
    reindex_response,        \* the last answer of the reindex endpoints
    user_request_counts,     \* main.user_request_counts: client -> times of its counted requests
    current_time,            \* time.time()
    admitted,                \* history: client -> times of the requests passed to call_next
    rate_response,           \* the last answer of rate_limit_middleware
    agent_configurations,    \* main.agent_configurations: agent -> its top-level dict
    tuning_objects,          \* the heap: reference -> the performance_tuning dict it holds
    configuration_history,   \* main.configuration_history
    config_before,           \* history: rollback id -> the configuration before that update, by value
    agent_response           \* the last answer of the agent configuration endpoints

swap_vars == <<current_index_metadata, index_swap_queue, index_build_queue, response,
               swap_count, build_count, swap_operation, registry, split, snapshot,
               window_closed, cancel_log>>

trigger_vars == <<index, now, last_recommended_at>>

reader_vars == <<status_loaded>>

\* The variables outside the swap specification and the trigger specification
reindex_vars == <<reindex_operations, reindex_lock, reindex_tasks, reindex_response>>

rate_vars == <<user_request_counts, current_time, admitted, rate_response>>

agent_vars == <<agent_configurations, tuning_objects, configuration_history,
                config_before, agent_response>>

other_vars == <<reader_vars, reindex_vars, rate_vars, agent_vars>>

\* What the steps of one group of handlers leave alone
outside_reader == <<trigger_vars, registry_error, reindex_vars, rate_vars, agent_vars>>

outside_reindex == <<swap_vars, trigger_vars, registry_error, reader_vars, rate_vars, agent_vars>>

outside_rate == <<swap_vars, trigger_vars, registry_error, reader_vars, reindex_vars, agent_vars>>

outside_agent == <<swap_vars, trigger_vars, registry_error, reader_vars, reindex_vars, rate_vars>>

outside_swap == <<trigger_vars, registry_error, other_vars>>

vars == <<swap_vars, outside_swap>>

\* --------------------------------------------------------------- helpers
CheckNames == {"dimension_check", "integrity_check", "memory_check", "performance_benchmark"}

AllPassed(results) == \A c \in CheckNames : results[c]

NonTerminalPhases == {"Validating", "Migrating", "RollingBack"}
TerminalPhases == {"Completed", "RolledBack", "Failed", "Cancelled"}

\* MigrationStatus as the schema declares it
MigrationStatus(is_migrating, current_version, target_version, traffic_percentage, migration_phase) ==
    [is_migrating |-> is_migrating,
     current_version |-> current_version,
     target_version |-> target_version,
     traffic_percentage |-> traffic_percentage,
     migration_phase |-> migration_phase]

NoResults == [c \in CheckNames |-> FALSE]

\* One shape for every HTTP response; fields an endpoint does not return keep
\* their neutral value.
Response(endpoint, status_code) ==
    [endpoint |-> endpoint,
     status_code |-> status_code,
     swap_id |-> 0,
     status |-> "",
     current_phase |-> "",
     validation_results |-> NoResults,
     estimated_completion_seconds |-> 0,
     version |-> NoVersion,
     dimensions |-> 0,
     vector_count |-> 0,
     migration_status |-> MigrationStatus(FALSE, NoVersion, NoVersion, 0, "")]

NoResponse == Response("", 0)

\* An answer of the reindex endpoints: ReindexOperationStatus, or an error
ReindexResponse(status_code, operation_id, status) ==
    [status_code |-> status_code, operation_id |-> operation_id, status |-> status]

NoReindexResponse == ReindexResponse(0, 0, "")

\* request.client.host of the callers
Clients == {"10.0.0.1", "10.0.0.2"}

\* What rate_limit_middleware returned to a client
RateResponse(client_ip, status_code) == [client_ip |-> client_ip, status_code |-> status_code]

NoRateResponse == RateResponse("", 0)

\* The agents configured here (of main's three; the orchestrator's dict has
\* no model_selection key and an empty performance_tuning)
Agents == {"retriever", "analyzer"}

\* The nested performance_tuning dicts, one object per agent; a top-level
\* dict holds a reference to its object. Floats are in hundredths.
InitialTuningObjects ==
    [ref \in Agents |->
        IF ref = "retriever" THEN [top_k |-> 5, similarity_threshold |-> 70]
        ELSE [temperature |-> 10]]

InitialAgentConfigurations ==
    [a \in Agents |->
        IF a = "retriever"
        THEN [model_selection |-> "all-MiniLM-L6-v2", timeout_seconds |-> 30,
              max_retries |-> 3, performance_tuning |-> "retriever"]
        ELSE [model_selection |-> "bedrock-claude", timeout_seconds |-> 60,
              max_retries |-> 2, performance_tuning |-> "analyzer"]]

\* An answer of the agent configuration endpoints
AgentResponse(endpoint, status_code, success, rollback_id) ==
    [endpoint |-> endpoint, status_code |-> status_code, success |-> success,
     rollback_id |-> rollback_id]

NoAgentResponse == AgentResponse("", 0, FALSE, 0)

\* get_index_status holds no loaded dict
NoStatus == MigrationStatus(FALSE, NoVersion, NoVersion, 0, "")

\* SwapOperation (spec.md 3); phase "Idle" while the controller has driven none
SwapOperation(id, source, target, phase, traffic, results, threshold, baseline) ==
    [id |-> id,
     source_version_id |-> source,
     target_version_id |-> target,
     phase |-> phase,
     traffic_percentage |-> traffic,
     validation_results |-> results,
     rollback_threshold |-> threshold,
     baseline_p95 |-> baseline]

IdleOperation == SwapOperation(0, NoVersion, NoVersion, "Idle", 0, NoResults, 0, 0)

\* ------------------------------------ migration triggers (faiss_models.py)
\* MigrationTriggers(): every field at its default
MigrationTriggers ==
    [vector_count_threshold |-> 500000,
     p95_latency_threshold_ms |-> 200,
     memory_threshold_percent |-> 50,
     faiss_latency_threshold_percent |-> 20,
     early_warning_vector_count |-> 400000,
     early_warning_latency_ms |-> 100,
     growth_rate_projection_days |-> 30]

\* The reasons a validation appends, in the order of its three `if`s. The
\* code joins them with "; " into migration_reason; here migration_reason is
\* the sequence of their kinds (None is the empty sequence).
Reasons(self, triggers) ==
    (IF self.p95_search_latency_ms > triggers.p95_latency_threshold_ms
     THEN <<"P95 latency">> ELSE <<>>)
    \o (IF self.memory_usage_percent > triggers.memory_threshold_percent
        THEN <<"Memory usage">> ELSE <<>>)
    \o (IF self.faiss_latency_percent_of_request > triggers.faiss_latency_threshold_percent
        THEN <<"FAISS latency %">> ELSE <<>>)

\* A validation that keeps the reasons the object already carries
check_migration_triggers_appending(self) ==
    LET reasons == self.migration_reason \o Reasons(self, MigrationTriggers)
    IN IF reasons # <<>>
       THEN [self EXCEPT !.requires_migration = TRUE, !.migration_reason = reasons]
       ELSE self

\* EnhancedIndexPerformanceMetrics.check_migration_triggers (model validator,
\* mode 'after'): compares against MigrationTriggers() and sets the two fields
\* only when some reason was found
check_migration_triggers(self) ==
    LET reasons == Reasons(self, MigrationTriggers)
    IN IF reasons # <<>>
       THEN [self EXCEPT !.requires_migration = TRUE, !.migration_reason = reasons]
       ELSE self

\* EnhancedIndexPerformanceMetrics(...) with requires_migration and
\* migration_reason left at their defaults (False, None)
EnhancedIndexPerformanceMetrics(p95, memory, faiss_percent) ==
    check_migration_triggers(
        [p95_search_latency_ms |-> p95,
         memory_usage_percent |-> memory,
         faiss_latency_percent_of_request |-> faiss_percent,
         requires_migration |-> FALSE,
         migration_reason |-> <<>>])

\* FAISSIndex(vector_count=..., performance_metrics=...): migration_triggers
\* comes from its default factory; constructing the index evaluates nothing more
FAISSIndex(vector_count, performance_metrics) ==
    [vector_count |-> vector_count,
     performance_metrics |-> performance_metrics,
     migration_triggers |-> MigrationTriggers]

\* An index without vectors or load
EmptyIndex == FAISSIndex(0, EnhancedIndexPerformanceMetrics(0, 0, 0))

\* ------------------------------------------------------------------- Init
Init ==
    /\ current_index_metadata =
         [version |-> InitialVersion,
          type |-> "IndexFlatIP",
          vector_count |-> InitialVectorCount,
          dimensions |-> InitialDimensions,
          p95_search_latency_ms |-> BaselineP95,
          migration_status |->
              MigrationStatus(FALSE, InitialVersion, NoVersion, InitialTraffic, "none")]
    /\ index_swap_queue = <<>>
    /\ index_build_queue = <<>>
    /\ response = NoResponse
    /\ swap_count = 0
    /\ build_count = 0
    /\ swap_operation = IdleOperation
    /\ cancel_log = 0
    /\ index = EmptyIndex
    /\ now = 0
    /\ last_recommended_at = -1
    /\ registry_error = ""
    /\ status_loaded = NoStatus
    /\ reindex_operations = <<>>
    /\ reindex_lock = FALSE
    /\ reindex_tasks = {}
    /\ reindex_response = NoReindexResponse
    /\ user_request_counts = [c \in Clients |-> <<>>]
    /\ current_time = 0
    /\ admitted = [c \in Clients |-> <<>>]
    /\ rate_response = NoRateResponse
    /\ agent_configurations = InitialAgentConfigurations
    /\ tuning_objects = InitialTuningObjects
    /\ configuration_history = <<>>
    /\ config_before = <<>>
    /\ agent_response = NoAgentResponse
    /\ registry = [v \in 1..(MaxVersion + 1) |->
                     IF v = InitialVersion
                     THEN [status |-> "Active", dimensions |-> InitialDimensions]
                     ELSE [status |-> "Absent", dimensions |-> 0]]
    /\ split = [source |-> InitialVersion, target |-> NoVersion,
                source_share |-> 100, target_share |-> 0]
    /\ snapshot = ZeroSample
    /\ window_closed = FALSE

\* ------------------------------------------------------ Control API (code)
\* Every request is an authenticated admin's (require_admin passes) and is
\* within the rate limit, so the handler body runs.

\* POST /admin/index/hot-swap
hot_swap_index(new_index_version, gradual_migration, rollback_on_regression, latency_regression_threshold) ==
    LET swap_id == swap_count + 1
        validation_results == [c \in CheckNames |-> TRUE]
    IN
    /\ swap_count < MaxSwaps
    /\ current_index_metadata' =
         [current_index_metadata EXCEPT !.migration_status =
             MigrationStatus(TRUE, current_index_metadata.version,
                             new_index_version, 0, "validation")]
    /\ index_swap_queue' = Append(index_swap_queue,
         [new_index_version |-> new_index_version,
          swap_id |-> swap_id,
          gradual_migration |-> gradual_migration,
          rollback_on_regression |-> rollback_on_regression,
          latency_threshold |-> latency_regression_threshold])
    /\ response' = [Response("hot-swap", 200) EXCEPT
                      !.swap_id = swap_id,
                      !.status = "initiated",
                      !.current_phase = "validation",
                      !.validation_results = validation_results,
                      !.estimated_completion_seconds =
                          IF gradual_migration THEN 60 ELSE 10]
    /\ swap_count' = swap_id
    /\ UNCHANGED <<cancel_log, outside_swap>>
    /\ UNCHANGED <<index_build_queue, build_count, swap_operation, registry,
                   split, snapshot, window_closed>>

\* A build endpoint that makes the version it announces the current one
build_index_promoting(index_type) ==
    LET new_version == current_index_metadata.version + 1
    IN
    /\ build_count < MaxBuilds
    /\ index_build_queue' = Append(index_build_queue,
         [index_type |-> index_type, new_version |-> new_version])
    /\ response' = [Response("build", 200) EXCEPT !.version = new_version]
    /\ build_count' = build_count + 1
    /\ current_index_metadata' = [current_index_metadata EXCEPT !.version = new_version]
    /\ UNCHANGED <<cancel_log, outside_swap>>
    /\ UNCHANGED <<index_swap_queue, swap_count,
                   swap_operation, registry, split, snapshot, window_closed>>

\* POST /admin/index/build
build_index(index_type) ==
    LET new_version == current_index_metadata.version + 1
    IN
    /\ build_count < MaxBuilds
    /\ index_build_queue' = Append(index_build_queue,
         [index_type |-> index_type, new_version |-> new_version])
    /\ response' = [Response("build", 200) EXCEPT !.version = new_version]
    /\ build_count' = build_count + 1
    /\ UNCHANGED <<cancel_log, outside_swap>>
    /\ UNCHANGED <<current_index_metadata, index_swap_queue, swap_count,
                   swap_operation, registry, split, snapshot, window_closed>>

\* The version the status endpoint reports
ReportedVersionHardCoded(meta) == InitialVersion

ReportedVersion(meta) == meta.version

\* GET /admin/index/status[?version=...]; NoVersion is the absent parameter
get_index_status(version) ==
    /\ response' =
         IF version # NoVersion /\ version # current_index_metadata.version
         THEN Response("status", 404)
         ELSE [Response("status", 200) EXCEPT
                 !.version = ReportedVersion(current_index_metadata),
                 !.dimensions = current_index_metadata.dimensions,
                 !.vector_count = current_index_metadata.vector_count,
                 !.migration_status = current_index_metadata.migration_status]
    /\ UNCHANGED <<cancel_log, outside_swap>>
    /\ UNCHANGED <<current_index_metadata, index_swap_queue, index_build_queue,
                   swap_count, build_count, swap_operation, registry, split,
                   snapshot, window_closed>>

\* The phase of the swap operation with this id, as the API reported it on
\* acceptance until the controller drives it
PhaseOf(id) ==
    IF swap_operation.id = id THEN swap_operation.phase ELSE "Validating"

\* POST /admin/index/swap/{id}/cancel: the router registers /build, /hot-swap
\* and /status only, so the framework answers 404 and no handler runs.
cancel_swap(operation_id) ==
    /\ response' = [Response("cancel", 404) EXCEPT !.swap_id = operation_id]
    /\ cancel_log' = IF PhaseOf(operation_id) = "Migrating"
                     THEN operation_id ELSE cancel_log
    /\ UNCHANGED outside_swap
    /\ UNCHANGED <<current_index_metadata, index_swap_queue, index_build_queue,
                   swap_count, build_count, swap_operation, registry, split,
                   snapshot, window_closed>>

\* ------------------------------------------- VersionRegistry (spec.md 4.1)
AllowedTransitions ==
    {<<"Building", "Ready">>, <<"Building", "Failed">>, <<"Ready", "Active">>,
     <<"Active", "Retiring">>, <<"Retiring", "Absent">>}

\* SetStatus that applies whatever status is requested
SetStatusUnchecked(reg, id, status) == [reg EXCEPT ![id].status = status]

\* SetStatus(id, status): InvalidTransition leaves the registry as it is
SetStatus(reg, id, status) ==
    IF <<reg[id].status, status>> \in AllowedTransitions
    THEN [reg EXCEPT ![id].status = status]
    ELSE reg

\* Register that makes the version it creates Active
RegisterAsActive(reg, id, status, dimensions) ==
    IF reg[id].status # "Absent"
    THEN reg
    ELSE [reg EXCEPT ![id] = [status |-> "Active", dimensions |-> dimensions]]

\* Register(version) for a finished build: DuplicateVersion leaves the registry as it is
Register(reg, id, status, dimensions) ==
    IF reg[id].status # "Absent"
    THEN reg
    ELSE [reg EXCEPT ![id] = [status |-> status, dimensions |-> dimensions]]

\* The build job's completion callback ('build_faiss_index' finished)
BuildCallback ==
    /\ index_build_queue # <<>>
    /\ \E ok \in BOOLEAN, d \in Dimensions :
          registry' = Register(registry, Head(index_build_queue).new_version,
                               IF ok THEN "Ready" ELSE "Failed", IF ok THEN d ELSE 0)
    /\ index_build_queue' = Tail(index_build_queue)
    /\ UNCHANGED <<cancel_log, outside_swap>>
    /\ UNCHANGED <<current_index_metadata, index_swap_queue, response, swap_count,
                   build_count, swap_operation, split, snapshot, window_closed>>

\* --------------------------------------------- TrafficRouter (spec.md 4.4)
SetSplitTargetOnly(table, source, target, percentage) ==
    IF percentage < 0 \/ percentage > 100
    THEN table
    ELSE [source |-> source, target |-> target,
          source_share |-> table.source_share, target_share |-> percentage]

\* SetSplit(targetVersionId, percentage): InvalidPercentage leaves the table as it is
SetSplit(table, source, target, percentage) ==
    IF percentage < 0 \/ percentage > 100
    THEN table
    ELSE [source |-> source, target |-> target,
          source_share |-> 100 - percentage, target_share |-> percentage]

\* ----------------------------------------- MetricsAggregator (spec.md 4.2)
\* The window timer: the target's window closes; without traffic on the target
\* the snapshot is the zero-sample one.
CloseWindow ==
    /\ swap_operation.phase = "Migrating"
    /\ ~window_closed
    /\ snapshot' \in (IF split.target_share = 0 THEN {ZeroSample} ELSE Latencies)
    /\ window_closed' = TRUE
    /\ UNCHANGED <<cancel_log, outside_swap>>
    /\ UNCHANGED <<current_index_metadata, index_swap_queue, index_build_queue,
                   response, swap_count, build_count, swap_operation, registry, split>>

\* Query keys whose hashes fall on, next to and far from the split points
QueryKeys == {0, 39, 40, 99, 100, 140}

\* The stable hash: the bucket 0..99 a key always falls in
Hash(queryKey) == queryKey % 100

\* Route that sends the bucket equal to the target's share to the target
RouteInclusive(queryKey, table) ==
    IF Hash(queryKey) <= table.target_share THEN table.target ELSE table.source

\* Route(queryKey): the buckets below the target's share go to the target
Route(queryKey, table) ==
    IF Hash(queryKey) < table.target_share THEN table.target ELSE table.source

\* -------------------------------------------- SwapController (spec.md 4.5)
PhaseName(phase) ==
    CASE phase = "Validating" -> "validation"
      [] phase = "Migrating" -> "migrating"
      [] phase = "Completed" -> "completed"
      [] phase = "RollingBack" -> "rolling_back"
      [] phase = "RolledBack" -> "rolled_back"
      [] phase = "Failed" -> "failed"
      [] OTHER -> "none"

\* The read model of an operation, as the Control API reports it
PublishStatus(meta, active, op) ==
    [meta EXCEPT !.migration_status =
        MigrationStatus(op.phase \in NonTerminalPhases, active, op.target_version_id,
                        op.traffic_percentage, PhaseName(op.phase))]

RegressionAbsolute(target_p95, op) ==
    /\ target_p95 # ZeroSample
    /\ target_p95 - op.baseline_p95 > op.rollback_threshold

\* (target_p95 - baseline_p95) / baseline_p95 > rollback_threshold, the threshold
\* in percent; a zero-sample snapshot is no decision
Regression(target_p95, op) ==
    /\ target_p95 # ZeroSample
    /\ (target_p95 - op.baseline_p95) * 100 > op.rollback_threshold * op.baseline_p95

\* The validation checklist; the three checks of the target in isolation are
\* the environment's (failing names the one that fails, "none" for none)
Validate(target, failing) ==
    [c \in CheckNames |->
        IF c = "dimension_check"
        THEN registry[target].dimensions = current_index_metadata.dimensions
        ELSE c # failing]

\* The worker receives the 'hot_swap_index' task: BeginSwap in the controller
BeginSwap ==
    /\ index_swap_queue # <<>>
    /\ swap_operation.phase \notin NonTerminalPhases
    /\ LET task == Head(index_swap_queue)
           ready == registry[task.new_index_version].status = "Ready"
           op == SwapOperation(task.swap_id, current_index_metadata.version,
                               task.new_index_version,
                               IF ready THEN "Validating" ELSE "Failed", 0, NoResults,
                               task.latency_threshold,
                               current_index_metadata.p95_search_latency_ms)
       IN /\ swap_operation' = op
          /\ current_index_metadata' =
                PublishStatus(current_index_metadata, current_index_metadata.version, op)
    /\ index_swap_queue' = Tail(index_swap_queue)
    /\ snapshot' = ZeroSample
    /\ window_closed' = FALSE
    /\ cancel_log' = 0
    /\ UNCHANGED outside_swap
    /\ UNCHANGED <<index_build_queue, response, swap_count, build_count, registry, split>>

\* Validating: all four checks pass -> Migrating, any failure -> Failed
ValidateSwap ==
    /\ swap_operation.phase = "Validating"
    /\ \E failing \in (CheckNames \ {"dimension_check"}) \cup {"none"} :
          LET results == Validate(swap_operation.target_version_id, failing)
              op == [swap_operation EXCEPT
                        !.validation_results = results,
                        !.phase = IF AllPassed(results) THEN "Migrating" ELSE "Failed"]
          IN /\ swap_operation' = op
             /\ current_index_metadata' =
                   PublishStatus(current_index_metadata, current_index_metadata.version, op)
    /\ cancel_log' = 0
    /\ UNCHANGED outside_swap
    /\ UNCHANGED <<index_swap_queue, index_build_queue, response, swap_count,
                   build_count, registry, split, snapshot, window_closed>>

\* The scheduled advance: one step up, clamped at 100
NextPercentageWrapped(percentage) == (percentage + TrafficStep) % 100

NextPercentage(percentage) ==
    IF percentage + TrafficStep > 100 THEN 100 ELSE percentage + TrafficStep

\* One tick in Migrating, after a full window: regression overrides the advance;
\* at 100% without regression the swap completes and the registry promotes.
Tick ==
    /\ swap_operation.phase = "Migrating"
    /\ window_closed
    /\ window_closed' = FALSE
    /\ IF Regression(snapshot, swap_operation)
       THEN LET op == [swap_operation EXCEPT !.phase = "RollingBack"]
            IN /\ swap_operation' = op
               /\ current_index_metadata' =
                     PublishStatus(current_index_metadata, current_index_metadata.version, op)
               /\ UNCHANGED <<registry, split>>
       ELSE IF swap_operation.traffic_percentage = 100
       THEN LET op == [swap_operation EXCEPT !.phase = "Completed"]
                target == op.target_version_id
            IN /\ swap_operation' = op
               /\ registry' = SetStatus(SetStatus(registry, op.source_version_id, "Retiring"),
                                        target, "Active")
               /\ current_index_metadata' =
                     PublishStatus([current_index_metadata EXCEPT
                                       !.version = target,
                                       !.dimensions = registry[target].dimensions],
                                   target, op)
               /\ split' = SetSplit(split, target, NoVersion, 0)
       ELSE LET percentage == NextPercentage(swap_operation.traffic_percentage)
                op == [swap_operation EXCEPT !.traffic_percentage = percentage]
            IN /\ swap_operation' = op
               /\ split' = SetSplit(split, op.source_version_id, op.target_version_id, percentage)
               /\ current_index_metadata' =
                     PublishStatus(current_index_metadata, current_index_metadata.version, op)
               /\ UNCHANGED registry
    /\ cancel_log' = 0
    /\ UNCHANGED outside_swap
    /\ UNCHANGED <<index_swap_queue, index_build_queue, response, swap_count,
                   build_count, snapshot>>

\* The target's share a rollback installs
RollbackKeepsShare(op) == op.traffic_percentage

RollbackPercentage(op) == 0

\* RollingBack: traffic reset to 0% -> RolledBack
Rollback ==
    /\ swap_operation.phase = "RollingBack"
    /\ LET percentage == RollbackPercentage(swap_operation)
           op == [swap_operation EXCEPT !.traffic_percentage = percentage,
                                        !.phase = "RolledBack"]
       IN /\ swap_operation' = op
          /\ split' = SetSplit(split, op.source_version_id, op.target_version_id, percentage)
          /\ current_index_metadata' =
                PublishStatus(current_index_metadata, current_index_metadata.version, op)
    /\ cancel_log' = 0
    /\ UNCHANGED outside_swap
    /\ UNCHANGED <<index_swap_queue, index_build_queue, response, swap_count,
                   build_count, registry, snapshot, window_closed>>

Next ==
    \/ \E v \in Versions, o \in HotSwapOptions :
          hot_swap_index(v, o.gradual_migration, o.rollback_on_regression,
                         o.latency_regression_threshold)
    \/ \E k \in IndexTypes : build_index(k)
    \/ \E v \in Versions \cup {NoVersion} : get_index_status(v)
    \/ \E id \in 1..swap_count : cancel_swap(id)
    \/ BuildCallback
    \/ CloseWindow
    \/ BeginSwap
    \/ ValidateSwap
    \/ Tick
    \/ Rollback

Spec == Init /\ [][Next]_vars

\* The controller's background task: the worker takes the next queued swap,
\* and the operation at hand is validated, measured, ticked or rolled back
ControllerStep ==
    \/ BeginSwap
    \/ ValidateSwap
    \/ CloseWindow
    \/ Tick
    \/ Rollback

\* Fair scheduling of the controller's task: a step it can take is taken
SpecFair == Spec /\ WF_vars(ControllerStep)

\* ------------------------------------------------ trigger evaluation steps
\* Metric values below, at 80% of, at and above the default thresholds
VectorCounts == {100000, 400000, 500000, 600000}
P95Latencies == {100, 160, 200, 250}
MemoryPercents == {40, 50, 60}
FaissPercents == {15, 20, 25}

\* TriggerEvaluator.cooldown_period (spec.md 4.3), in clock units
CooldownPeriod == 2

\* The index object is built from a metrics snapshot: constructing
\* EnhancedIndexPerformanceMetrics runs check_migration_triggers
EvaluateIndex(vector_count, p95, memory, faiss_percent) ==
    /\ index' = FAISSIndex(vector_count,
                           EnhancedIndexPerformanceMetrics(p95, memory, faiss_percent))
    /\ last_recommended_at' = IF index'.performance_metrics.requires_migration
                              THEN now ELSE last_recommended_at
    /\ UNCHANGED <<now, swap_vars, registry_error, other_vars>>

\* The same snapshot evaluated again: the metrics object is validated anew
\* from its own fields (model_validate of its dump)
Reevaluate ==
    /\ index' = [index EXCEPT
                    !.performance_metrics = check_migration_triggers(index.performance_metrics)]
    /\ last_recommended_at' = IF index'.performance_metrics.requires_migration
                              THEN now ELSE last_recommended_at
    /\ UNCHANGED <<now, swap_vars, registry_error, other_vars>>

AdvanceClock ==
    /\ now < MaxTime
    /\ now' = now + 1
    /\ UNCHANGED <<index, last_recommended_at, swap_vars, registry_error, other_vars>>

NextTrigger ==
    \/ \E vc \in VectorCounts, p95 \in P95Latencies, mem \in MemoryPercents,
          fp \in FaissPercents : EvaluateIndex(vc, p95, mem, fp)
    \/ Reevaluate
    \/ AdvanceClock

SpecTrigger == Init /\ [][NextTrigger]_vars

\* ------------------------------------- VersionRegistry requests (spec.md 4.1)
Statuses == {"Building", "Ready", "Failed", "Active", "Retiring", "Absent"}

\* Register(version): a version is created Building, on a build request
RegisterVersion(id, dimensions) ==
    /\ registry' = Register(registry, id, "Building", dimensions)
    /\ registry_error' = IF registry[id].status # "Absent" THEN "DuplicateVersion" ELSE ""
    /\ UNCHANGED <<current_index_metadata, index_swap_queue, index_build_queue, response,
                   swap_count, build_count, swap_operation, split, snapshot,
                   window_closed, cancel_log, trigger_vars, other_vars>>

\* SetStatus(id, status) with any status; "Absent" asks for the removal
RequestStatus(id, status) ==
    /\ registry' = SetStatus(registry, id, status)
    /\ registry_error' = IF <<registry[id].status, status>> \in AllowedTransitions
                         THEN "" ELSE "InvalidTransition"
    /\ UNCHANGED <<current_index_metadata, index_swap_queue, index_build_queue, response,
                   swap_count, build_count, swap_operation, split, snapshot,
                   window_closed, cancel_log, trigger_vars, other_vars>>

NextRegistry ==
    \/ \E id \in DOMAIN registry, d \in Dimensions : RegisterVersion(id, d)
    \/ \E id \in DOMAIN registry, status \in Statuses : RequestStatus(id, status)

SpecRegistry == Init /\ [][NextRegistry]_vars

\* ------------------------ get_index_status in two steps, against hot_swap_index
\* A read that takes is_migrating from the dict loaded and the other fields
\* from the slot as it is when the answer is built
ReadStatusPerField(loaded, meta) ==
    [meta.migration_status EXCEPT !.is_migrating = loaded.is_migrating]

\* MigrationStatus(**current_index_metadata["migration_status"]): the subscript
\* yields one dict object and all five fields come from it; hot_swap_index
\* stores a new dict in the slot and never changes the fields of an old one
ReadStatus(loaded, meta) == loaded

\* The subscript: the dict in the slot is loaded
status_load ==
    /\ status_loaded = NoStatus
    /\ status_loaded' = current_index_metadata.migration_status
    /\ UNCHANGED <<swap_vars, outside_reader>>

\* The answer is built from the loaded dict. The event loop runs the two steps
\* back to back (the handler has no await); here hot_swap_index may run in
\* between, as it could on another thread.
status_respond ==
    /\ status_loaded # NoStatus
    /\ response' = [Response("status", 200) EXCEPT
                      !.version = ReportedVersion(current_index_metadata),
                      !.dimensions = current_index_metadata.dimensions,
                      !.vector_count = current_index_metadata.vector_count,
                      !.migration_status = ReadStatus(status_loaded, current_index_metadata)]
    /\ status_loaded' = NoStatus
    /\ UNCHANGED <<current_index_metadata, index_swap_queue, index_build_queue,
                   swap_count, build_count, swap_operation, registry, split, snapshot,
                   window_closed, cancel_log, outside_reader>>

NextAtomic ==
    \/ \E v \in Versions, o \in HotSwapOptions :
          hot_swap_index(v, o.gradual_migration, o.rollback_on_regression,
                         o.latency_regression_threshold)
    \/ status_load
    \/ status_respond

SpecAtomic == Init /\ [][NextAtomic]_vars

\* ------------------------------------ knowledge-base reindexing (main.py)
\* The status of an operation, "" if reindex_operations has no such key
ReindexStatus(operations, operation_id) ==
    IF operation_id \in DOMAIN operations THEN operations[operation_id].status ELSE ""

\* A check that never finds a reindexing in progress
NeverInProgress == FALSE

\* `if reindex_lock:` in trigger_reindexing
AlreadyInProgress == reindex_lock

\* POST /admin/knowledge-base/reindex: no await before the return, one step
trigger_reindexing ==
    IF AlreadyInProgress
    THEN /\ reindex_response' = ReindexResponse(409, 0, "")
         /\ UNCHANGED <<reindex_operations, reindex_lock, reindex_tasks>>
         /\ UNCHANGED outside_reindex
    ELSE LET operation_id == Len(reindex_operations) + 1
         IN /\ operation_id <= MaxReindex
            /\ reindex_operations' = Append(reindex_operations,
                  [operation_id |-> operation_id, status |-> "initiated",
                   progress_percentage |-> 0])
            /\ reindex_lock' = TRUE
            /\ reindex_tasks' = reindex_tasks \cup
                  {[operation_id |-> operation_id, pc |-> "created"]}
            /\ reindex_response' = ReindexResponse(202, operation_id, "initiated")
            /\ UNCHANGED outside_reindex

\* GET /admin/knowledge-base/reindex/{operation_id}/status
get_reindex_status(operation_id) ==
    /\ reindex_response' =
         IF operation_id \in DOMAIN reindex_operations
         THEN ReindexResponse(200, operation_id, reindex_operations[operation_id].status)
         ELSE ReindexResponse(404, 0, "")
    /\ UNCHANGED <<reindex_operations, reindex_lock, reindex_tasks>>
    /\ UNCHANGED outside_reindex

\* perform_reindexing_task up to its await: the status becomes in-progress
task_start(operation_id) ==
    /\ [operation_id |-> operation_id, pc |-> "created"] \in reindex_tasks
    /\ reindex_operations' =
         [reindex_operations EXCEPT ![operation_id].status = "in-progress"]
    /\ reindex_tasks' = (reindex_tasks \ {[operation_id |-> operation_id, pc |-> "created"]})
                          \cup {[operation_id |-> operation_id, pc |-> "sleeping"]}
    /\ UNCHANGED <<reindex_lock, reindex_response>>
    /\ UNCHANGED outside_reindex

\* A `finally` that keeps the lock when the task raised
LockAfterTaskKeptOnFailure(outcome) == outcome = "failed"

\* `finally: reindex_lock = False`, whatever the outcome
LockAfterTask(outcome) == FALSE

\* perform_reindexing_task from its await to its end: the processing returns
\* (completed) or raises an Exception (failed); the except clause and the
\* finally clause run without a further await
task_finish(operation_id, outcome) ==
    /\ [operation_id |-> operation_id, pc |-> "sleeping"] \in reindex_tasks
    /\ reindex_operations' =
         [reindex_operations EXCEPT
            ![operation_id].status = outcome,
            ![operation_id].progress_percentage =
                IF outcome = "completed" THEN 100 ELSE @]
    /\ reindex_lock' = LockAfterTask(outcome)
    /\ reindex_tasks' = reindex_tasks \ {[operation_id |-> operation_id, pc |-> "sleeping"]}
    /\ UNCHANGED reindex_response
    /\ UNCHANGED outside_reindex

TaskStep ==
    \/ \E id \in 1..MaxReindex : task_start(id)
    \/ \E id \in 1..MaxReindex, outcome \in {"completed", "failed"} : task_finish(id, outcome)

NextReindex ==
    \/ trigger_reindexing
    \/ \E id \in 1..(MaxReindex + 1) : get_reindex_status(id)
    \/ TaskStep

SpecReindex == Init /\ [][NextReindex]_vars

\* The event loop runs every task that is ready, and the awaited sleep ends
SpecReindexFair == SpecReindex /\ WF_vars(TaskStep)

\* ------------------------------------ per-client rate limiting (main.py)
RateLimit == 10

Window == 60

RECURSIVE Recent(_, _)
\* [t for t in requests if now - t < 60]
Recent(requests, time) ==
    IF requests = <<>> THEN <<>>
    ELSE IF time - Head(requests) < Window
         THEN <<Head(requests)>> \o Recent(Tail(requests), time)
         ELSE Recent(Tail(requests), time)

\* A test that lets the request after the tenth through
OverLimitStrict(requests) == Len(requests) > RateLimit

\* `if len(user_request_counts[client_ip]) >= 10`
OverLimit(requests) == Len(requests) >= RateLimit

\* rate_limit_middleware up to call_next: no await, one step. Status 200
\* stands for whatever the rest of the stack answers.
rate_limit_middleware(client_ip) ==
    LET kept == Recent(user_request_counts[client_ip], current_time)
    IN /\ Len(admitted[client_ip]) + Len(admitted[CHOOSE c \in Clients : c # client_ip])
             < MaxAdmitted
       /\ IF OverLimit(kept)
          THEN /\ user_request_counts' = [user_request_counts EXCEPT ![client_ip] = kept]
               /\ rate_response' = RateResponse(client_ip, 429)
               /\ UNCHANGED admitted
          ELSE /\ user_request_counts' =
                    [user_request_counts EXCEPT ![client_ip] = Append(kept, current_time)]
               /\ admitted' = [admitted EXCEPT ![client_ip] = Append(@, current_time)]
               /\ rate_response' = RateResponse(client_ip, 200)
       /\ UNCHANGED current_time
       /\ UNCHANGED outside_rate

\* Time passes between two requests
TimePasses ==
    /\ current_time + TimeStep <= MaxClock
    /\ current_time' = current_time + TimeStep
    /\ UNCHANGED <<user_request_counts, admitted, rate_response>>
    /\ UNCHANGED outside_rate

NextRate ==
    \/ \E client_ip \in Clients : rate_limit_middleware(client_ip)
    \/ TimePasses

SpecRate == Init /\ [][NextRate]_vars

\* ------------------------------------ agent configuration (main.py)
\* An Optional number of the request that was left out
None == -1

\* No model_selection, no performance_tuning in the request
NoModel == ""

NoTuning == [k \in {} |-> 0]

valid_models == {"all-MiniLM-L6-v2", "bedrock-claude", "llama-3-8b"}

\* The requests made: AgentConfigurationUpdate without its agent_name
Updates ==
    [model_selection : {NoModel, "llama-3-8b", "gpt-4"},
     timeout_seconds : {None, 45},
     max_retries : {None},
     performance_tuning : {NoTuning, [top_k |-> 10]}]

\* dict.update
DictUpdate(d, u) ==
    [k \in DOMAIN d \cup DOMAIN u |-> IF k \in DOMAIN u THEN u[k] ELSE d[k]]

\* A configuration by value: the top-level dict with the nested dict its
\* reference points to
ConfigValue(config, heap) == [config EXCEPT !.performance_tuning = heap[@]]

\* previous_config and new_config are shallow copies: new_config's
\* performance_tuning is the object of the live configuration, and
\* .update changes it in place
TuningAfterUpdate(heap, ref, update) ==
    [heap EXCEPT ![ref] = DictUpdate(@, update)]

\* POST /agents/configure
configure_agent(agent_name, request) ==
    LET previous_config == agent_configurations[agent_name]
        valid == request.model_selection = NoModel
                    \/ request.model_selection \in valid_models
        with_model ==
            IF request.model_selection # NoModel /\ valid
            THEN [previous_config EXCEPT !.model_selection = request.model_selection]
            ELSE previous_config
        with_timeout ==
            IF request.timeout_seconds # None
            THEN [with_model EXCEPT !.timeout_seconds = request.timeout_seconds]
            ELSE with_model
        new_config ==
            IF request.max_retries # None
            THEN [with_timeout EXCEPT !.max_retries = request.max_retries]
            ELSE with_timeout
        rollback_id == Len(configuration_history) + 1
    IN /\ rollback_id <= MaxUpdates
       /\ tuning_objects' =
            IF DOMAIN request.performance_tuning # {}
            THEN TuningAfterUpdate(tuning_objects, new_config.performance_tuning,
                                   request.performance_tuning)
            ELSE tuning_objects
       /\ configuration_history' = Append(configuration_history,
            [rollback_id |-> rollback_id, agent_name |-> agent_name,
             config |-> previous_config])
       /\ config_before' = Append(config_before,
            ConfigValue(agent_configurations[agent_name], tuning_objects))
       /\ agent_configurations' =
            IF valid THEN [agent_configurations EXCEPT ![agent_name] = new_config]
            ELSE agent_configurations
       /\ agent_response' = AgentResponse("configure", 200, valid, rollback_id)
       /\ UNCHANGED outside_agent

\* POST /agents/configure/rollback/{rollback_id}
rollback_agent_configuration(rollback_id) ==
    IF rollback_id \in DOMAIN configuration_history
    THEN LET rollback_point == configuration_history[rollback_id]
         IN /\ agent_configurations' =
                 [agent_configurations EXCEPT
                    ![rollback_point.agent_name] = rollback_point.config]
            /\ agent_response' = AgentResponse("rollback", 200, TRUE, rollback_id)
            /\ UNCHANGED <<tuning_objects, configuration_history, config_before>>
            /\ UNCHANGED outside_agent
    ELSE /\ agent_response' = AgentResponse("rollback", 404, FALSE, rollback_id)
         /\ UNCHANGED <<agent_configurations, tuning_objects, configuration_history,
                        config_before>>
         /\ UNCHANGED outside_agent

NextAgent ==
    \/ \E agent_name \in Agents, request \in Updates : configure_agent(agent_name, request)
    \/ \E rollback_id \in 1..(MaxUpdates + 1) : rollback_agent_configuration(rollback_id)

SpecAgent == Init /\ [][NextAgent]_vars


\* ================================================================ properties

\* Swap operations the API has accepted ("initiated", phase "validation") that
\* have not reached a terminal phase: those still queued for the controller
\* and the one it is driving.
InFlightSwaps ==
    {index_swap_queue[i].swap_id : i \in DOMAIN index_swap_queue}
        \cup (IF swap_operation.phase \in NonTerminalPhases THEN {swap_operation.id} ELSE {})

ActiveVersions == {v \in DOMAIN registry : registry[v].status = "Active"}

\* C1: at most one swap operation is non-terminal at any time; of several
\* hot-swap requests only one starts a swap.
C1_AtMostOneNonTerminalSwap == Cardinality(InFlightSwaps) <= 1

\* C2: a hot-swap request is accepted only when no non-terminal swap exists
\* and the target version is Ready; otherwise it is rejected (409 / 412) and
\* the swap state is left as it was.
C2_BeginSwapRejected ==
    [][(response'.endpoint = "hot-swap" /\ swap_count' # swap_count)
        => IF InFlightSwaps # {}
           THEN /\ response'.status_code = 409
                /\ UNCHANGED <<current_index_metadata, index_swap_queue, swap_operation>>
           ELSE IF registry[current_index_metadata'.migration_status.target_version].status # "Ready"
           THEN /\ response'.status_code = 412
                /\ UNCHANGED <<current_index_metadata, index_swap_queue, swap_operation>>
           ELSE response'.status_code = 200]_vars

\* C3: validation gates traffic: a swap is Migrating only if all four checks
\* passed; a swap whose target's dimensions differ from the source's never has
\* a passing dimension check, and its traffic_percentage is 0.
C3_ValidationGatesTraffic ==
    /\ swap_operation.phase = "Migrating" => AllPassed(swap_operation.validation_results)
    /\ \A i \in DOMAIN index_swap_queue :
          LET task == index_swap_queue[i]
              target == task.new_index_version
          IN (/\ response.endpoint = "hot-swap"
              /\ response.swap_id = task.swap_id
              /\ registry[target].status = "Ready"
              /\ registry[target].dimensions # current_index_metadata.dimensions)
             => ~response.validation_results["dimension_check"]
    /\ LET ms == current_index_metadata.migration_status
       IN (/\ ms.is_migrating
           /\ ms.target_version # NoVersion
           /\ registry[ms.target_version].status = "Ready"
           /\ registry[ms.target_version].dimensions # current_index_metadata.dimensions)
          => ms.traffic_percentage = 0
\* C4: rollback safety: while a swap is RollingBack the target's share is never
\* raised, any split installed gives the target 0%, and the swap reaches
\* RolledBack with the target at 0% (source at 100%).
C4_RollbackSafety ==
    [][swap_operation.phase = "RollingBack"
        => /\ split'.target_share <= split.target_share
           /\ swap_operation'.traffic_percentage <= swap_operation.traffic_percentage
           /\ split' # split => split'.target_share = 0
           /\ swap_operation'.phase = "RolledBack"
                => /\ split'.target_share = 0
                   /\ split'.source_share = 100
                   /\ swap_operation'.traffic_percentage = 0]_vars

\* C4 witness: a swap rolled back from 40% after a regression, target back at 0%
C4_Witness ==
    /\ swap_operation.phase = "RolledBack"
    /\ snapshot # ZeroSample
    /\ split.target = swap_operation.target_version_id
    /\ split.target_share = 0

\* C5: monotonicity: while a swap stays Migrating its traffic_percentage never
\* decreases from one state to the next, in the controller's operation and in
\* the reported migration status.
C5_MigratingMonotonic ==
    [][/\ (/\ swap_operation.phase = "Migrating"
           /\ swap_operation'.phase = "Migrating"
           /\ swap_operation'.id = swap_operation.id)
          => swap_operation'.traffic_percentage >= swap_operation.traffic_percentage
       /\ (/\ current_index_metadata.migration_status.migration_phase = "migrating"
           /\ current_index_metadata'.migration_status.migration_phase = "migrating")
          => current_index_metadata'.migration_status.traffic_percentage
                >= current_index_metadata.migration_status.traffic_percentage]_vars

\* C5 witness: an uninterrupted migration that advanced twice
C5_Witness ==
    /\ swap_operation.phase = "Migrating"
    /\ swap_operation.traffic_percentage > TrafficStep
    /\ current_index_metadata.migration_status.migration_phase = "migrating"
    /\ current_index_metadata.migration_status.traffic_percentage
          = swap_operation.traffic_percentage

\* The share of traffic the router gives version v
ShareOf(v) ==
    (IF split.source = v THEN split.source_share ELSE 0)
        + (IF split.target = v /\ split.target # split.source THEN split.target_share ELSE 0)

\* C6: the traffic shares of the live versions sum to 100; with no swap in
\* progress the active version carries 100%; during a swap the target's
\* share is traffic_percentage, within 0..100.
C6_SharesSumTo100 ==
    /\ split.source_share + split.target_share = 100
    /\ split.target_share \in 0..100
    /\ current_index_metadata.migration_status.traffic_percentage \in 0..100
    /\ swap_operation.phase \notin NonTerminalPhases
          => ShareOf(current_index_metadata.version) = 100
    /\ swap_operation.phase \in NonTerminalPhases
          => /\ split.target_share = swap_operation.traffic_percentage
             /\ ShareOf(swap_operation.source_version_id)
                   + ShareOf(swap_operation.target_version_id) = 100

\* C6 witness: mid-migration, the target at 40% and the source at 60%
C6_Witness ==
    /\ swap_operation.phase = "Migrating"
    /\ split.target_share = TrafficStep
    /\ split.source_share = 100 - TrafficStep
    /\ split.target = swap_operation.target_version_id

\* C7: exactly one version is Active; while a swap is in progress the source
\* is the Active version and the target is a different version.
C7_OneActiveDistinctTarget ==
    /\ Cardinality(ActiveVersions) = 1
    /\ current_index_metadata.version \in ActiveVersions
    /\ swap_operation.phase \in NonTerminalPhases
          => swap_operation.target_version_id # swap_operation.source_version_id
    /\ current_index_metadata.migration_status.is_migrating
          => /\ current_index_metadata.migration_status.current_version \in ActiveVersions
             /\ current_index_metadata.migration_status.target_version
                   # current_index_metadata.migration_status.current_version
\* C8: once a swap is Completed its target is the one Active version, its
\* source is Retiring, and every status query answered from then on reports
\* the target as the active version.
C8_CompletedPromotesTarget ==
    [][swap_operation'.phase = "Completed"
        => /\ registry'[swap_operation'.target_version_id].status = "Active"
           /\ registry'[swap_operation'.source_version_id].status = "Retiring"
           /\ ActiveVersions' = {swap_operation'.target_version_id}
           /\ (/\ response' # response
               /\ response'.endpoint = "status"
               /\ response'.status_code = 200)
              => response'.version = swap_operation'.target_version_id]_vars

\* C8 witness: a status query answered after a completed swap reports the target
C8_Witness ==
    /\ swap_operation.phase = "Completed"
    /\ swap_operation.traffic_percentage = 100
    /\ response.endpoint = "status"
    /\ response.status_code = 200
    /\ response.version = swap_operation.target_version_id
    /\ response.version # InitialVersion

\* The target's closed window shows a regression beyond the operation's threshold
C9_TargetRegressed ==
    /\ snapshot # ZeroSample
    /\ (snapshot - swap_operation.baseline_p95) * 100
          > swap_operation.rollback_threshold * swap_operation.baseline_p95

\* C9: regression overrides the advance: a tick in Migrating that sees the
\* target's p95 above the baseline by more than rollback_threshold moves the
\* swap to RollingBack and does not advance traffic_percentage; the target's
\* share never rises from there.
C9_RegressionOverridesAdvance ==
    [][(swap_operation.phase = "Migrating" /\ C9_TargetRegressed)
        => /\ swap_operation'.traffic_percentage <= swap_operation.traffic_percentage
           /\ split'.target_share <= split.target_share
           /\ swap_operation' # swap_operation
                => /\ swap_operation'.phase = "RollingBack"
                   /\ swap_operation'.traffic_percentage = swap_operation.traffic_percentage]_vars

\* C9 witness: at 40% the window closed 28 ms against a 25 ms baseline and a
\* 10% threshold, and the tick moved the swap to RollingBack at 40%
C9_Witness ==
    /\ swap_operation.phase = "RollingBack"
    /\ swap_operation.traffic_percentage = TrafficStep
    /\ swap_operation.rollback_threshold = DefaultRegressionThreshold
    /\ snapshot = 28
    /\ C9_TargetRegressed

\* C10: Cancel succeeds only on a Migrating operation, which it moves to
\* RollingBack; in any other phase it answers 409 and leaves the operation,
\* the migration status, the registry and the split as they were.
C10_CancelOnlyWhileMigrating ==
    [][(response' # response /\ response'.endpoint = "cancel")
        => IF PhaseOf(response'.swap_id) = "Migrating"
           THEN /\ response'.status_code = 200
                /\ swap_operation'.phase = "RollingBack"
           ELSE /\ response'.status_code = 409
                /\ UNCHANGED <<current_index_metadata, swap_operation, registry, split>>]_vars

\* C11: cancellation is never dropped. A Cancel that names the Migrating
\* operation is honoured by the controller's next step on that operation: the
\* step takes it to RollingBack, so it neither advances traffic nor completes.
C11_CancelNeverDropped ==
    [][(/\ cancel_log # 0
        /\ cancel_log = swap_operation.id
        /\ swap_operation.phase = "Migrating"
        /\ swap_operation' # swap_operation)
        => swap_operation'.phase = "RollingBack"]_vars

\* The transitions of the migration phase the status endpoint reports: those of
\* the state machine, and the start of a later swap once the last one is over
StatusTransitions ==
    {<<"none", "validation">>,
     <<"validation", "migrating">>, <<"validation", "failed">>,
     <<"migrating", "migrating">>, <<"migrating", "completed">>,
     <<"migrating", "rolling_back">>,
     <<"rolling_back", "rolled_back">>,
     <<"completed", "validation">>, <<"rolled_back", "validation">>,
     <<"failed", "validation">>}

\* C12: the phase of a swap changes only along the listed transitions, and a
\* swap in a terminal phase keeps its phase and traffic_percentage for good:
\* both for the controller's operation and for the migration status reported.
C12_PhaseTransitions ==
    [][/\ (swap_operation'.id = swap_operation.id /\ swap_operation' # swap_operation)
           => /\ swap_operation.phase \notin TerminalPhases
              /\ <<PhaseName(swap_operation.phase), PhaseName(swap_operation'.phase)>>
                     \in StatusTransitions
       /\ (current_index_metadata'.migration_status.migration_phase
              # current_index_metadata.migration_status.migration_phase)
           => <<current_index_metadata.migration_status.migration_phase,
                current_index_metadata'.migration_status.migration_phase>>
                 \in StatusTransitions]_vars

\* The operation ended Failed in validation (the target was Ready and a check
\* failed), not at BeginSwap
FailedInValidation(op) ==
    op.phase = "Failed" /\ op.validation_results # NoResults

\* C13: a swap that ends RolledBack or Failed leaves its source Active, and
\* the status endpoint goes on reporting the source as the active version;
\* after a validation failure the target is still Ready, and a new BeginSwap
\* on the same target is accepted (the operation starts Validating).
C13_FailedSwapKeepsSource ==
    [][/\ swap_operation'.phase \in {"RolledBack", "Failed"}
           => /\ registry'[swap_operation'.source_version_id].status = "Active"
              /\ current_index_metadata'.version = swap_operation'.source_version_id
              /\ (response' # response /\ response'.endpoint = "status"
                     /\ response'.status_code = 200)
                  => response'.version = swap_operation'.source_version_id
       /\ FailedInValidation(swap_operation')
           => registry'[swap_operation'.target_version_id].status = "Ready"
       /\ (/\ FailedInValidation(swap_operation)
           /\ swap_operation'.id # swap_operation.id
           /\ swap_operation'.target_version_id = swap_operation.target_version_id)
           => swap_operation'.phase = "Validating"]_vars

\* A swap of a Ready target failed validation; the status endpoint reports
\* the source, and a second attempt on the same target is about to be received
C13_Witness ==
    /\ FailedInValidation(swap_operation)
    /\ registry[swap_operation.target_version_id].status = "Ready"
    /\ registry[swap_operation.source_version_id].status = "Active"
    /\ response.endpoint = "status"
    /\ response.status_code = 200
    /\ response.version = swap_operation.source_version_id
    /\ index_swap_queue # <<>>
    /\ Head(index_swap_queue).new_index_version = swap_operation.target_version_id

\* The thresholds of the claim that the index exceeds
ExceededThresholds(idx) ==
    {k \in {"vector_count", "p95_latency", "memory_usage_percent"} :
        CASE k = "vector_count" ->
               idx.vector_count > idx.migration_triggers.vector_count_threshold
          [] k = "p95_latency" ->
               idx.performance_metrics.p95_search_latency_ms
                   > idx.migration_triggers.p95_latency_threshold_ms
          [] OTHER ->
               idx.performance_metrics.memory_usage_percent
                   > idx.migration_triggers.memory_threshold_percent}

\* C14: migration is required iff vector_count, p95 latency or memory usage
\* is strictly above its threshold, and the reasons hold one entry for every
\* exceeded threshold.
C14_TriggersAreStrictOr ==
    /\ index.performance_metrics.requires_migration <=> ExceededThresholds(index) # {}
    /\ Len(index.performance_metrics.migration_reason) = Cardinality(ExceededThresholds(index))

\* C15: a vector count above vector_count_threshold with p95 latency and
\* memory usage within theirs gives Recommended with the vector-count reason
\* as the only reason.
C15_VectorCountAloneRecommends ==
    ExceededThresholds(index) = {"vector_count"}
        => /\ index.performance_metrics.requires_migration
           /\ index.performance_metrics.migration_reason = <<"Vector count">>

\* C16: the early-warning levels are 80% of the migration thresholds.
C16_EarlyWarningAt80Percent ==
    LET t == index.migration_triggers
    IN /\ 100 * t.early_warning_vector_count = 80 * t.vector_count_threshold
       /\ 100 * t.early_warning_latency_ms = 80 * t.p95_latency_threshold_ms

\* C17: an evaluation requires migration at a new time only if none did
\* before, or the last one did at least cooldown_period earlier.
C17_Cooldown ==
    [][last_recommended_at' # last_recommended_at
        => \/ last_recommended_at = -1
           \/ last_recommended_at' >= last_recommended_at + CooldownPeriod]_vars

\* The metrics object as constructed, before its validator ran
Fresh(metrics) ==
    [metrics EXCEPT !.requires_migration = FALSE, !.migration_reason = <<>>]

\* C18: evaluation is deterministic and idempotent: however often a snapshot
\* has been evaluated, the decision and the reasons, in their order, are
\* those of one evaluation of the same inputs.
C18_EvaluationIdempotent ==
    index.performance_metrics = check_migration_triggers(Fresh(index.performance_metrics))

\* All three of the validator's triggers fired, at a time after the start
C18_Witness ==
    /\ index.performance_metrics.requires_migration
    /\ index.performance_metrics.migration_reason
          = <<"P95 latency", "Memory usage", "FAISS latency %">>
    /\ last_recommended_at = now
    /\ now > 0

\* The versions whose status a step changes
StatusChanged == {v \in DOMAIN registry : registry'[v].status # registry[v].status}

\* C19: a status changes only along Building -> Ready, Building -> Failed,
\* Ready -> Active, Active -> Retiring, Retiring -> removed (and by the
\* registration that creates a version Building); a SetStatus with any other
\* pair answers InvalidTransition and changes no version.
C19_StatusTransitions ==
    [][/\ \A v \in StatusChanged :
            \/ <<registry[v].status, registry'[v].status>> \in AllowedTransitions
            \/ registry[v].status = "Absent" /\ registry'[v].status = "Building"
       /\ Cardinality(StatusChanged) <= 1
       /\ registry_error' # "" => registry' = registry
       /\ (registry_error' = "" /\ registry_error # "") => registry' # registry]_vars

\* A SetStatus was refused while versions stand in several statuses
C19_Witness ==
    /\ registry_error = "InvalidTransition"
    /\ \E v, w \in DOMAIN registry :
          registry[v].status = "Retiring" /\ registry[w].status = "Failed"

\* C20: no two build requests are assigned the same version id.
C20_BuildIdsUnique ==
    \A i, j \in DOMAIN index_build_queue :
        i # j => index_build_queue[i].new_version # index_build_queue[j].new_version

\* C21: the Active version changes only in the step that completes a swap,
\* and then to that swap's target: no build request, build callback, swap
\* initiation, failed validation, rollback or cancel changes it, neither in
\* the registry nor in the version the metadata names.
C21_ActiveOnlyByCompletedSwap ==
    [][(\/ ActiveVersions' # ActiveVersions
        \/ current_index_metadata'.version # current_index_metadata.version)
        => /\ swap_operation.phase = "Migrating"
           /\ swap_operation'.phase = "Completed"
           /\ ActiveVersions' = {swap_operation'.target_version_id}
           /\ current_index_metadata'.version = swap_operation'.target_version_id]_vars

\* A swap completed and promoted its target after builds, a failed swap and
\* cancel requests had left the Active version alone
C21_Witness ==
    /\ swap_operation.phase = "Completed"
    /\ swap_operation.id = MaxSwaps
    /\ build_count = MaxBuilds
    /\ ActiveVersions = {swap_operation.target_version_id}
    /\ registry[InitialVersion].status = "Retiring"
    /\ response.endpoint = "cancel"

\* What the status endpoint has to say about the most recent swap: the one
\* accepted last if it still waits for the controller (phase validation, no
\* traffic yet), otherwise the operation the controller drives or drove last
ExpectedStatus ==
    IF index_swap_queue # <<>>
    THEN MigrationStatus(TRUE, current_index_metadata.version,
                         index_swap_queue[Len(index_swap_queue)].new_index_version,
                         0, "validation")
    ELSE IF swap_operation.phase = "Idle"
    THEN MigrationStatus(FALSE, InitialVersion, NoVersion, InitialTraffic, "none")
    ELSE MigrationStatus(swap_operation.phase \in NonTerminalPhases,
                         current_index_metadata.version,
                         swap_operation.target_version_id,
                         swap_operation.traffic_percentage,
                         PhaseName(swap_operation.phase))

\* C22: every answer of GET index status names the Active version and gives
\* the most recent swap's actual phase and traffic percentage; it reports a
\* migration in progress only while that swap is not terminal.
C22_StatusReflectsCurrentSwap ==
    [][(response' # response /\ response'.endpoint = "status"
          /\ response'.status_code = 200)
        => /\ response'.version \in ActiveVersions
           /\ response'.migration_status = ExpectedStatus]_vars

C24_ReadsAreAtomic ==
    [][(status_loaded # NoStatus /\ status_loaded' = NoStatus)
        => \/ response'.migration_status = status_loaded
           \/ response'.migration_status = current_index_metadata.migration_status]_vars

\* A hot-swap request replaced the slot after a read had loaded the old dict
\* and before the read built its answer
C24_Witness ==
    /\ status_loaded # NoStatus
    /\ status_loaded.migration_phase = "none"
    /\ current_index_metadata.migration_status.migration_phase = "validation"

\* The operations that are initiated or in progress
RunningReindexes ==
    {i \in DOMAIN reindex_operations :
        reindex_operations[i].status \in {"initiated", "in-progress"}}

\* C25: at most one reindex operation is initiated or in progress, and a
\* trigger_reindexing call made while one is running is answered 409 and
\* creates neither an operation nor a background task.
C25_OneReindexAtATime ==
    [][/\ Cardinality(RunningReindexes') <= 1
       /\ (RunningReindexes # {} /\ reindex_response' # reindex_response
             /\ reindex_response'.status_code \notin {200, 404})
           => /\ reindex_response'.status_code = 409
              /\ UNCHANGED <<reindex_operations, reindex_tasks, reindex_lock>>]_vars

\* A trigger was refused while the second operation was in progress
C25_Witness ==
    /\ reindex_response.status_code = 409
    /\ Len(reindex_operations) = 2
    /\ reindex_operations[2].status = "in-progress"
    /\ reindex_operations[1].status = "failed"

\* C29: every accepted reindex operation eventually is completed or failed;
\* the step that ends it releases the lock, also when the task raised, and
\* the trigger_reindexing that follows is accepted.
C29_ReindexTerminates ==
    /\ \A id \in 1..MaxReindex :
          (ReindexStatus(reindex_operations, id) \in {"initiated", "in-progress"})
              ~> (ReindexStatus(reindex_operations, id) \in {"completed", "failed"})
    /\ [][/\ RunningReindexes' = {} => ~reindex_lock'
          /\ (RunningReindexes = {} /\ reindex_response' # reindex_response
                /\ reindex_response'.status_code \notin {200, 404})
              => reindex_response'.status_code = 202]_vars

\* After an operation failed a later trigger was accepted, and its operation
\* completed and released the lock
C29_Witness ==
    /\ Len(reindex_operations) = 2
    /\ reindex_operations[1].status = "failed"
    /\ reindex_operations[2].status = "completed"
    /\ ~reindex_lock
    /\ reindex_tasks = {}

\* The requests among `times` that fall in the 60 seconds ending at `time`
InWindow(times, time) ==
    {i \in DOMAIN times : times[i] <= time /\ time - times[i] < Window}

\* C26: for each client at most 10 requests are passed on within any 60
\* seconds (the windows that end at an admitted request are the fullest),
\* and a request of a client with 10 admitted in the last 60 seconds is
\* answered 429 and is not counted.
C26_RateLimitPerClient ==
    [][\A c \in Clients :
         /\ \A i \in DOMAIN admitted'[c] :
               Cardinality(InWindow(admitted'[c], admitted'[c][i])) <= RateLimit
         /\ (/\ Cardinality(InWindow(admitted[c], current_time)) >= RateLimit
             /\ rate_response' # rate_response
             /\ rate_response'.client_ip = c)
            => /\ rate_response'.status_code = 429
               /\ admitted'[c] = admitted[c]
               /\ Len(user_request_counts'[c]) = RateLimit]_vars

\* A client with 10 requests passed at time 0 is refused TimeStep seconds
\* later, after the other client was served at that time
C26_Witness ==
    /\ current_time = TimeStep
    /\ Len(admitted["10.0.0.1"]) = RateLimit
    /\ admitted["10.0.0.1"][RateLimit] = 0
    /\ admitted["10.0.0.2"] = <<TimeStep>>
    /\ rate_response = RateResponse("10.0.0.1", 429)

\* C27: a rollback with the rollback_id an update returned makes the
\* agent's whole configuration, performance_tuning included, equal to what
\* it was immediately before that update.
C27_RollbackRestores ==
    [][(agent_response'.endpoint = "rollback" /\ agent_response'.status_code = 200
          /\ agent_response' # agent_response)
       => LET r == agent_response'.rollback_id
              a == configuration_history[r].agent_name
          IN ConfigValue(agent_configurations'[a], tuning_objects') = config_before[r]]_vars

WithoutMigrationStatus(meta) == [meta EXCEPT !.migration_status = NoStatus]

\* C30: a build_index call and a get_index_status call change no index
\* metadata at all, and a hot_swap_index call changes nothing of it but
\* migration_status: version, vector_count, dimensions and the performance
\* metrics are the same before and after each of these calls.
C30_ControlOperationsFrame ==
    [][/\ build_count' # build_count => UNCHANGED current_index_metadata
       /\ (response' # response /\ response'.endpoint = "status")
             => UNCHANGED current_index_metadata
       /\ swap_count' # swap_count
             => WithoutMigrationStatus(current_index_metadata')
                  = WithoutMigrationStatus(current_index_metadata)]_vars

\* After a build, an accepted hot-swap and a status read the metadata still
\* is the initial one but for the migration_status the hot-swap wrote
C30_Witness ==
    /\ build_count = 1
    /\ swap_count = 1
    /\ response.endpoint = "status"
    /\ response.status_code = 200
    /\ index_swap_queue # <<>>
    /\ index_build_queue # <<>>
    /\ current_index_metadata.migration_status.migration_phase = "validation"
    /\ current_index_metadata.version = InitialVersion
    /\ current_index_metadata.vector_count = InitialVectorCount
====
